---- MODULE Spec2Model ----
(***************************************************************************)
(* Model of the analytic core of clinical-llm-eval:                        *)
(*   - consistency_scorer.py : score_dataset and its helpers               *)
(*   - statistical_tests.py  : the paired comparisons of run_tests         *)
(*                                                                         *)
(* Conventions.                                                            *)
(*   - A Python str is a sequence of one-character strings, so that        *)
(*     str.upper() and str.strip() are computed character by character.    *)
(*   - A Python float that is the quotient of two integers is kept as the  *)
(*     exact fraction [num, den]; round(x, k) is computed on the fraction  *)
(*     and yields an integer count of 10^-k units (0.667 is 667).          *)
(*   - A p-value is an integer count of millionths, rounded down, so that  *)
(*     p < 0.001 is exactly  p < 1000.                                     *)
(***************************************************************************)
EXTENDS Integers, Sequences, FiniteSets, TLC

VARIABLES
    \* ---- consistency_scorer.score_dataset --------------------------------
    pc,         \* position in score_dataset: "for", "body", "append", "raised", "done"
    item,       \* <<it>> for the loop variable `item`, <<>> when unbound
    record,     \* <<r>> for the dict `record` of this iteration, <<>> when unbound
    n_records,  \* len(records)
    exc,        \* the exception that left score_dataset, or "none"
    saved,      \* TRUE once df.to_csv(out_file) has run
    \* ---- statistical_tests.run_tests, one model pair ----------------------
    tpc,        \* position in the comparison; "idle" while the scorer runs
    acc1,       \* scores[m1]["is_accurate"] as a sequence of booleans
    acc2,       \* scores[m2]["is_accurate"]
    stat,       \* local `stat` / `chi2` of the last comparison, a fraction
    p,          \* local `p` of the last comparison, in millionths
    sig,        \* local `sig` of the last comparison
    results,    \* the list `results` of rows
    \* ---- consistency_scorer.__main__: score_dataset, then summarize -------
    data,       \* the list `data` loaded from the raw file
    df,         \* <<frame>> for the DataFrame `df` of score_dataset, <<>> when unbound
    summary,    \* <<row>> for the dict summarize returned, <<>> when unbound
    \* ---- statistical_tests.run_tests, all datasets and pairs --------------
    disk,       \* the scored files on disk: dataset -> model -> frame or Missing
    ds,         \* index in DATASETS (or in the scorer's datasets) of the loop
    step,       \* index of the inner loop: a model, a pair or a prompt style
    scores,     \* the dict `scores` of the current dataset: model -> frame
    \* ---- the pipeline: scorer __main__, then run_tests --------------------
    files,      \* the scored files written so far, as <<dataset, model>>
    \* ---- inference.run_inference, one question ----------------------------
    inf         \* [is_pubmedqa, responses]: record["responses"] under construction

vars == <<pc, item, record, n_records, exc, saved,
          tpc, acc1, acc2, stat, p, sig, results,
          data, df, summary, disk, ds, step, scores, files, inf>>

scoreVars == <<pc, item, record, n_records, exc, saved>>
testVars  == <<tpc, acc1, acc2, stat, p, sig, results>>
summaryVars == <<data, df, summary>>
runVars == <<disk, ds, step, scores>>
otherVars == <<data, df, summary, disk, ds, step, scores, files, inf>>

(***************************************************************************)
(* Bounds of the model.                                                    *)
(***************************************************************************)
MaxItems == 2        \* questions in one raw file
MaxQuestions == 6    \* rows of the two scored files that are compared

(***************************************************************************)
(* Strings.                                                                *)
(***************************************************************************)
LowerCase == <<"a","b","c","d","e","f","g","h","i","j","k","l","m",
               "n","o","p","q","r","s","t","u","v","w","x","y","z">>
UpperCase == <<"A","B","C","D","E","F","G","H","I","J","K","L","M",
               "N","O","P","Q","R","S","T","U","V","W","X","Y","Z">>

UpperChar(c) ==
    IF \E i \in 1..26 : LowerCase[i] = c
    THEN UpperCase[CHOOSE i \in 1..26 : LowerCase[i] = c]
    ELSE c

\* str.upper()
Upper(s) == [i \in 1..Len(s) |-> UpperChar(s[i])]

IsSpace(c) == c \in {" ", "\t", "\n"}

RECURSIVE LStrip(_)
LStrip(s) == IF s # <<>> /\ IsSpace(Head(s)) THEN LStrip(Tail(s)) ELSE s

RECURSIVE RStrip(_)
RStrip(s) ==
    IF s # <<>> /\ IsSpace(s[Len(s)]) THEN RStrip(SubSeq(s, 1, Len(s) - 1)) ELSE s

\* str.strip()
Strip(s) == RStrip(LStrip(s))

UNKNOWN == <<"U","N","K","N","O","W","N">>

(***************************************************************************)
(* Floats that are quotients of integers.                                  *)
(***************************************************************************)
Frac(n, d) == [num |-> n, den |-> d]

Pow10(k) == IF k = 3 THEN 1000 ELSE IF k = 4 THEN 10000 ELSE 1

\* round(n/d, k) in units of 10^-k, ties to even as Python rounds.
RoundFrac(x, k) ==
    LET scaled == x.num * Pow10(k)
        q == scaled \div x.den
        r == scaled % x.den
    IN  IF 2 * r < x.den THEN q
        ELSE IF 2 * r > x.den THEN q + 1
        ELSE IF q % 2 = 0 THEN q ELSE q + 1

(***************************************************************************)
(* consistency_scorer.py                                                   *)
(***************************************************************************)
PROMPT_STYLES == <<"original", "formal", "simplified", "roleplay", "direct">>

StyleSet == {PROMPT_STYLES[i] : i \in DOMAIN PROMPT_STYLES}

\* dict.values(): the values in insertion order.  Every dict `responses`
\* is built by a comprehension over PROMPT_STYLES, so its insertion order
\* is the order of PROMPT_STYLES restricted to its keys.
Values(responses) ==
    LET keys == SelectSeq(PROMPT_STYLES, LAMBDA s : s \in DOMAIN responses)
    IN  [i \in 1..Len(keys) |-> responses[keys[i]]]

\* Mutant: the UNKNOWN entries are not filtered out.
ValidAnswersKeepUnknown(responses) == Values(responses)

\* [v for v in responses.values() if v != "UNKNOWN"]
ValidAnswers(responses) == SelectSeq(Values(responses), LAMBDA v : v # UNKNOWN)

\* Counter(answers)[t]
CountOf(answers, t) == Cardinality({i \in DOMAIN answers : answers[i] = t})

\* The keys of Counter(answers), in order of first occurrence.
RECURSIVE CounterKeys(_)
CounterKeys(answers) ==
    IF answers = <<>> THEN <<>>
    ELSE LET init == CounterKeys(SubSeq(answers, 1, Len(answers) - 1))
             last == answers[Len(answers)]
         IN  IF \E i \in DOMAIN init : init[i] = last THEN init
             ELSE Append(init, last)

\* Mutant: a later key with an equal count replaces the best one.
RECURSIVE MaxByCountLast(_, _, _)
MaxByCountLast(keys, answers, best) ==
    IF keys = <<>> THEN best
    ELSE IF CountOf(answers, Head(keys)) >= CountOf(answers, best)
         THEN MaxByCountLast(Tail(keys), answers, Head(keys))
         ELSE MaxByCountLast(Tail(keys), answers, best)

\* max(keys, key=count): the first key, in iteration order, whose count no
\* later key exceeds and no earlier key reaches.
RECURSIVE MaxByCount(_, _, _)
MaxByCount(keys, answers, best) ==
    IF keys = <<>> THEN best
    ELSE IF CountOf(answers, Head(keys)) > CountOf(answers, best)
         THEN MaxByCount(Tail(keys), answers, Head(keys))
         ELSE MaxByCount(Tail(keys), answers, best)

\* Counter(answers).most_common(1)[0][0], for a non-empty list.
MostCommon(answers) ==
    LET keys == CounterKeys(answers)
    IN  MaxByCount(Tail(keys), answers, Head(keys))

majority_answer(responses) ==
    LET answers == ValidAnswers(responses)
    IN  IF answers = <<>> THEN UNKNOWN ELSE MostCommon(answers)

\* Mutant: the denominator counts the valid entries only.
consistency_score_over_valid(responses) ==
    LET answers == ValidAnswers(responses)
    IN  IF answers = <<>> THEN Frac(0, 1)
        ELSE Frac(CountOf(answers, MostCommon(answers)), Len(answers))

consistency_score(responses) ==
    LET answers == ValidAnswers(responses)
    IN  IF answers = <<>> THEN Frac(0, 1)
        ELSE Frac(CountOf(answers, MostCommon(answers)), Len(Values(responses)))

\* unknowns / len(responses) raises ZeroDivisionError for an empty dict.
unknown_rate_raises(responses) == Len(Values(responses)) = 0

unknown_rate(responses) ==
    Frac(CountOf(Values(responses), UNKNOWN), Len(Values(responses)))

\* item["correct_answer"].strip().upper()
NormalizeCorrect(raw) == Upper(Strip(raw))

\* Mutant: the majority answer is compared without upper().
IsAccurateCaseSensitive(maj, correct) == maj = correct

\* is_accurate = (maj.upper() == correct)
IsAccurate(maj, correct) == Upper(maj) = correct

\* Mutant: an absent style gets the empty string.
StyleAnswerDefaultEmpty(responses, style) ==
    IF style \in DOMAIN responses THEN responses[style] ELSE <<>>

\* responses.get(style, "UNKNOWN")
StyleAnswer(responses, style) ==
    IF style \in DOMAIN responses THEN responses[style] ELSE UNKNOWN

\* record[f"correct_{style}"] = (ans.upper() == correct)
StyleCorrect(ans, correct) == Upper(ans) = correct

\* responses = {style: item["responses"][style]["extracted"]
\*              for style in PROMPT_STYLES if style in item["responses"]}
Responses(it) ==
    [s \in {t \in StyleSet : t \in DOMAIN it.responses} |-> it.responses[s]]

\* The dict `record` of one loop iteration.  consistency_score and
\* unknown_rate are stored rounded to three decimals, in thousandths.
BuildRecord(it) ==
    LET responses == Responses(it)
        maj == majority_answer(responses)
        cons_score == consistency_score(responses)
        unk_rate == unknown_rate(responses)
        correct == NormalizeCorrect(it.correct_answer)
    IN  [id |-> it.id,
         correct_answer |-> correct,
         majority_answer |-> maj,
         is_accurate |-> IsAccurate(maj, correct),
         consistency_score |-> RoundFrac(cons_score, 3),
         unknown_rate |-> RoundFrac(unk_rate, 3),
         ans |-> [s \in StyleSet |-> StyleAnswer(responses, s)],
         correct |-> [s \in StyleSet |->
                        StyleCorrect(StyleAnswer(responses, s), correct)]]

(***************************************************************************)
(* The raw files score_dataset may be given.  An extracted answer is what  *)
(* inference.py stores: an upper-case option letter, a lower-case          *)
(* yes/no/maybe word, or "UNKNOWN".  The ground truth is a dataset label   *)
(* (never the "UNKNOWN" marker), possibly padded or in another case.       *)
(***************************************************************************)
ExtractedTokens == {UNKNOWN, <<"A">>, <<"B">>, <<"y","e","s">>}

CorrectAnswers == {<<"A">>, <<" ","b"," ">>, <<"y","e","s">>}

AnswerSets == UNION {[S -> ExtractedTokens] : S \in SUBSET StyleSet}

Items(id) ==
    {[id |-> id, responses |-> r, correct_answer |-> c] :
        r \in AnswerSets, c \in CorrectAnswers}

(***************************************************************************)
(* score_dataset, one action per step of its loop.                         *)
(***************************************************************************)
\* for item in data: the next item of the raw file.
NextItem ==
    /\ pc = "for"
    /\ n_records < MaxItems
    /\ \E it \in Items(n_records + 1) : item' = <<it>>
    /\ pc' = "body"
    /\ UNCHANGED <<record, n_records, exc, saved>>
    /\ UNCHANGED testVars
    /\ UNCHANGED otherVars

\* Lines 68-98: the loop body up to the finished record.  unknown_rate
\* divides by len(responses); with no style present the body raises.
ScoreItem ==
    /\ pc = "body"
    /\ IF unknown_rate_raises(Responses(item[1]))
       THEN /\ exc' = "ZeroDivisionError"
            /\ pc' = "raised"
            /\ UNCHANGED record
       ELSE /\ record' = <<BuildRecord(item[1])>>
            /\ pc' = "append"
            /\ UNCHANGED exc
    /\ UNCHANGED <<item, n_records, saved>>
    /\ UNCHANGED testVars
    /\ UNCHANGED otherVars

\* records.append(record); the loop variables are rebound by the next
\* iteration.
AppendRecord ==
    /\ pc = "append"
    /\ n_records' = n_records + 1
    /\ item' = <<>>
    /\ record' = <<>>
    /\ pc' = "for"
    /\ UNCHANGED <<exc, saved>>
    /\ UNCHANGED testVars
    /\ UNCHANGED otherVars

\* The loop is exhausted: pd.DataFrame(records).to_csv(out_file).
SaveScored ==
    /\ pc = "for"
    /\ saved' = TRUE
    /\ pc' = "done"
    /\ UNCHANGED <<item, record, n_records, exc>>
    /\ UNCHANGED testVars
    /\ UNCHANGED otherVars

\* The variables of the other programs, while one program is modelled.
OtherIdle ==
    /\ data = <<>>
    /\ df = <<>>
    /\ summary = <<>>
    /\ disk = <<>>
    /\ ds = 0
    /\ step = 0
    /\ scores = <<>>
    /\ files = {}
    /\ inf = <<>>

TestIdle ==
    /\ tpc = "idle"
    /\ acc1 = <<>>
    /\ acc2 = <<>>
    /\ stat = Frac(0, 1)
    /\ p = 0
    /\ sig = ""
    /\ results = <<>>

InitScore ==
    /\ pc = "for"
    /\ item = <<>>
    /\ record = <<>>
    /\ n_records = 0
    /\ exc = "none"
    /\ saved = FALSE
    /\ TestIdle
    /\ OtherIdle

NextScore == NextItem \/ ScoreItem \/ AppendRecord \/ SaveScored

SpecScore == InitScore /\ [][NextScore]_vars

(***************************************************************************)
(* consistency_scorer.py: summarize, and __main__ for one (model, dataset) *)
(* pair: score_dataset(...) followed by summarize(df, ...).                *)
(***************************************************************************)
\* float("nan").  Every ordered comparison with NaN is False; the encoding
\* lies above every value the model compares it with, so `x < c` is False.
NaN == 2000000000

\* The columns of a scored record (dataset, model and question left out).
RecordColumns ==
    {"id", "correct_answer", "majority_answer", "is_accurate",
     "consistency_score", "unknown_rate", "ans", "correct"}

\* Mutant: the frame is built with its columns named, pd.DataFrame(records,
\* columns=...), so an empty list still has them.
DataFrameWithColumns(records) == [columns |-> RecordColumns, rows |-> records]

\* pd.DataFrame(records): the columns are the keys of the dicts, so an
\* empty list gives a frame without columns.
DataFrame(records) ==
    [columns |-> IF records = <<>> THEN {} ELSE RecordColumns, rows |-> records]

\* len(df)
FrameLen(frame) == Len(frame.rows)

RECURSIVE SumSeq(_)
SumSeq(xs) == IF xs = <<>> THEN 0 ELSE Head(xs) + SumSeq(Tail(xs))

\* round(x, k) of a float: on an exact decimal tie the binary value of the
\* float decides, so both neighbours are possible results.
RoundCandidates(x) ==
    LET q == x.num \div x.den
        r == x.num % x.den
    IN  IF 2 * r < x.den THEN {q}
        ELSE IF 2 * r > x.den THEN {q + 1}
        ELSE {q, q + 1}

\* round(series.mean(), 3) for a series in thousandths, and
\* round(series.mean() * 100, 1) in tenths of a percent for the same series:
\* both are sum / n in the unit of the result.  mean() of no value is NaN.
RoundedMeans(xs) ==
    IF xs = <<>> THEN {NaN} ELSE RoundCandidates(Frac(SumSeq(xs), Len(xs)))

\* round(flags.mean() * 100, 1) in tenths of a percent.
PercentTrue(flags) ==
    IF flags = <<>> THEN NaN
    ELSE RoundFrac(Frac(1000 * Cardinality({i \in DOMAIN flags : flags[i]}),
                        Len(flags)), 0)

\* Mutant: a score of at least 0.6 counts as fully consistent.
CountAtLeastSixTenths(xs) == Cardinality({i \in DOMAIN xs : xs[i] >= 600})

\* int((df["consistency_score"] == 1.0).sum())
CountFullyConsistent(xs) == Cardinality({i \in DOMAIN xs : xs[i] = 1000})

\* round(series.std(), 3) in thousandths: the sample standard deviation
\* (ddof = 1), NaN for fewer than two values.
RoundedStd(xs) ==
    IF Len(xs) < 2 THEN NaN
    ELSE LET n == Len(xs)
             total == SumSeq(xs)
             sq == SumSeq([i \in 1..n |-> (n * xs[i] - total) * (n * xs[i] - total)])
             d == n * n * (n - 1)
         IN  CHOOSE r \in 0..1000 :
                /\ (r = 0 \/ (2 * r - 1) * (2 * r - 1) * d <= 4 * sq)
                /\ 4 * sq < (2 * r + 1) * (2 * r + 1) * d

Column(frame, name) == [i \in 1..FrameLen(frame) |-> frame.rows[i][name]]

\* df[name] raises KeyError when the frame has no such column.
SummarizeRaises(frame) == "consistency_score" \notin frame.columns

\* The dicts summarize(df, ...) may return for a frame that has the columns.
Summaries(frame) ==
    LET cons == Column(frame, "consistency_score")
        unk == Column(frame, "unknown_rate")
    IN  {[n_questions |-> FrameLen(frame),
          mean_consistency |-> m,
          std_consistency |-> RoundedStd(cons),
          fully_consistent |-> CountFullyConsistent(cons),
          fully_consistent_pct |->
              PercentTrue([i \in DOMAIN cons |-> cons[i] = 1000]),
          overall_accuracy |-> PercentTrue(Column(frame, "is_accurate")),
          unknown_rate |-> u,
          acc |-> [st \in StyleSet |->
                     PercentTrue([i \in 1..FrameLen(frame) |->
                                     frame.rows[i].correct[st]])]] :
            m \in RoundedMeans(cons), u \in RoundedMeans(unk)}

\* The raw files of the scorer run: questions whose records differ in
\* agreement, accuracy and missing answers, and one question without any
\* response.
SummaryItems(id) ==
    LET a == <<"A">>
        b == <<"B">>
        st == PROMPT_STYLES
        it(r, c) == [id |-> id, responses |-> r, correct_answer |-> c]
    IN  {it([x \in StyleSet |-> a], a),
         it([x \in {st[1], st[2], st[3]} |-> IF x = st[3] THEN UNKNOWN ELSE a], a),
         it([x \in StyleSet |-> UNKNOWN], a),
         it([x \in StyleSet |-> IF x \in {st[1], st[5]} THEN a ELSE b], b),
         it([x \in {} |-> a], a)}

MaxRecords == 3

RawFiles ==
    UNION {{f \in [1..n -> SummaryItems(0)] : TRUE} : n \in 0..MaxRecords}

WithIds(raw) == [i \in DOMAIN raw |-> [raw[i] EXCEPT !.id = i]]

\* score_dataset(dataset_name, model_key) as one step: every item is scored,
\* the frame is built and written.  An item without responses raises.
RunScoreDataset ==
    /\ pc = "main"
    /\ IF \E i \in DOMAIN data : unknown_rate_raises(Responses(data[i]))
       THEN /\ exc' = "ZeroDivisionError"
            /\ pc' = "raised"
            /\ UNCHANGED <<df, saved, n_records>>
       ELSE /\ df' = <<DataFrame([i \in DOMAIN data |-> BuildRecord(data[i])])>>
            /\ n_records' = Len(data)
            /\ saved' = TRUE
            /\ pc' = "scored"
            /\ UNCHANGED exc
    /\ UNCHANGED <<item, record, data, summary>>
    /\ UNCHANGED testVars
    /\ UNCHANGED <<disk, ds, step, scores, files, inf>>

\* summary = summarize(df, dataset_name, model_key)
RunSummarize ==
    /\ pc = "scored"
    /\ IF SummarizeRaises(df[1])
       THEN /\ exc' = "KeyError"
            /\ pc' = "raised"
            /\ UNCHANGED summary
       ELSE /\ \E row \in Summaries(df[1]) : summary' = <<row>>
            /\ pc' = "summarized"
            /\ UNCHANGED exc
    /\ UNCHANGED <<item, record, n_records, saved, data, df>>
    /\ UNCHANGED testVars
    /\ UNCHANGED <<disk, ds, step, scores, files, inf>>

InitSummary ==
    /\ pc = "main"
    /\ item = <<>>
    /\ record = <<>>
    /\ n_records = 0
    /\ exc = "none"
    /\ saved = FALSE
    /\ TestIdle
    /\ \E raw \in RawFiles : data = WithIds(raw)
    /\ df = <<>>
    /\ summary = <<>>
    /\ disk = <<>>
    /\ ds = 0
    /\ step = 0
    /\ scores = <<>>
    /\ files = {}
    /\ inf = <<>>

NextSummary == RunScoreDataset \/ RunSummarize

SpecSummary == InitSummary /\ [][NextSummary]_vars

(***************************************************************************)
(* statistical_tests.py: the two comparisons run_tests makes for one       *)
(* model pair (m1, m2) of one dataset.                                     *)
(***************************************************************************)
\* Mutant: the thresholds are inclusive.
SigInclusive(pv) ==
    IF pv <= 1000 THEN "***"
    ELSE IF pv <= 10000 THEN "**"
    ELSE IF pv <= 50000 THEN "*"
    ELSE "ns"

\* Lines 42-43: sig of the rank test.
SigConsistency(pv) ==
    IF pv < 1000 THEN "***"
    ELSE IF pv < 10000 THEN "**"
    ELSE IF pv < 50000 THEN "*"
    ELSE "ns"

\* Lines 71-72: sig of the proportion test.
SigAccuracy(pv) ==
    IF pv < 1000 THEN "***"
    ELSE IF pv < 10000 THEN "**"
    ELSE IF pv < 50000 THEN "*"
    ELSE "ns"

\* .astype(int)
AsInt(b) == IF b THEN 1 ELSE 0

\* np.sum((a1 == x) & (a2 == y))
CountPairs(a1, a2, x, y) ==
    Cardinality({i \in DOMAIN a1 : AsInt(a1[i]) = x /\ AsInt(a2[i]) = y})

\* scipy.stats.chi2.sf(x, df=1) = erfc(sqrt(x / 2)), in millionths rounded
\* down, at the quotients k^2 / s for k in 0..9 and s in 1..9.
Chi2SfTable == {
    [num |-> 0, den |-> 1, p |-> 1000000],
    [num |-> 1, den |-> 9, p |-> 738882],
    [num |-> 1, den |-> 8, p |-> 723673],
    [num |-> 1, den |-> 7, p |-> 705456],
    [num |-> 1, den |-> 6, p |-> 683091],
    [num |-> 1, den |-> 5, p |-> 654720],
    [num |-> 1, den |-> 4, p |-> 617075],
    [num |-> 1, den |-> 3, p |-> 563702],
    [num |-> 4, den |-> 9, p |-> 504985],
    [num |-> 1, den |-> 2, p |-> 479500],
    [num |-> 4, den |-> 7, p |-> 449691],
    [num |-> 2, den |-> 3, p |-> 414216],
    [num |-> 4, den |-> 5, p |-> 371093],
    [num |-> 1, den |-> 1, p |-> 317310],
    [num |-> 9, den |-> 8, p |-> 288844],
    [num |-> 9, den |-> 7, p |-> 256839],
    [num |-> 4, den |-> 3, p |-> 248213],
    [num |-> 3, den |-> 2, p |-> 220671],
    [num |-> 16, den |-> 9, p |-> 182422],
    [num |-> 9, den |-> 5, p |-> 179712],
    [num |-> 2, den |-> 1, p |-> 157299],
    [num |-> 9, den |-> 4, p |-> 133614],
    [num |-> 16, den |-> 7, p |-> 130570],
    [num |-> 8, den |-> 3, p |-> 102470],
    [num |-> 25, den |-> 9, p |-> 95580],
    [num |-> 3, den |-> 1, p |-> 83264],
    [num |-> 25, den |-> 8, p |-> 77099],
    [num |-> 16, den |-> 5, p |-> 73638],
    [num |-> 25, den |-> 7, p |-> 58781],
    [num |-> 4, den |-> 1, p |-> 45500],
    [num |-> 25, den |-> 6, p |-> 41226],
    [num |-> 9, den |-> 2, p |-> 33894],
    [num |-> 5, den |-> 1, p |-> 25347],
    [num |-> 36, den |-> 7, p |-> 23342],
    [num |-> 16, den |-> 3, p |-> 20921],
    [num |-> 49, den |-> 9, p |-> 19630],
    [num |-> 6, den |-> 1, p |-> 14305],
    [num |-> 49, den |-> 8, p |-> 13328],
    [num |-> 25, den |-> 4, p |-> 12419],
    [num |-> 7, den |-> 1, p |-> 8150],
    [num |-> 64, den |-> 9, p |-> 7660],
    [num |-> 36, den |-> 5, p |-> 7290],
    [num |-> 8, den |-> 1, p |-> 4677],
    [num |-> 49, den |-> 6, p |-> 4266],
    [num |-> 25, den |-> 3, p |-> 3892],
    [num |-> 9, den |-> 1, p |-> 2699],
    [num |-> 64, den |-> 7, p |-> 2496],
    [num |-> 49, den |-> 5, p |-> 1745],
    [num |-> 81, den |-> 8, p |-> 1462],
    [num |-> 32, den |-> 3, p |-> 1090],
    [num |-> 81, den |-> 7, p |-> 669],
    [num |-> 12, den |-> 1, p |-> 532],
    [num |-> 49, den |-> 4, p |-> 465],
    [num |-> 25, den |-> 2, p |-> 406],
    [num |-> 64, den |-> 5, p |-> 346],
    [num |-> 27, den |-> 2, p |-> 238],
    [num |-> 16, den |-> 1, p |-> 63],
    [num |-> 81, den |-> 5, p |-> 56],
    [num |-> 49, den |-> 3, p |-> 53],
    [num |-> 18, den |-> 1, p |-> 22],
    [num |-> 81, den |-> 4, p |-> 6],
    [num |-> 64, den |-> 3, p |-> 3],
    [num |-> 49, den |-> 2, p |-> 0],
    [num |-> 25, den |-> 1, p |-> 0],
    [num |-> 27, den |-> 1, p |-> 0],
    [num |-> 32, den |-> 1, p |-> 0],
    [num |-> 36, den |-> 1, p |-> 0],
    [num |-> 81, den |-> 2, p |-> 0],
    [num |-> 49, den |-> 1, p |-> 0],
    [num |-> 64, den |-> 1, p |-> 0],
    [num |-> 81, den |-> 1, p |-> 0]
    }

Chi2Sf(x) ==
    (CHOOSE e \in Chi2SfTable : e.num * x.den = x.num * e.den).p

\* Mutant: no continuity correction.
McNemarChi2Uncorrected(m1_only, m2_only) ==
    Frac((IF m1_only >= m2_only THEN m1_only - m2_only ELSE m2_only - m1_only)
            * (IF m1_only >= m2_only THEN m1_only - m2_only ELSE m2_only - m1_only),
         m1_only + m2_only)

\* Lines 65-66: (abs(m1_only - m2_only) - 1)**2 / (m1_only + m2_only)
McNemarChi2(m1_only, m2_only) ==
    LET d == IF m1_only >= m2_only THEN m1_only - m2_only ELSE m2_only - m1_only
    IN  Frac((d - 1) * (d - 1), m1_only + m2_only)

\* Mutant: the values of the else branch are swapped.
McNemarElseSwapped(a1, a2) ==
    LET m1_only == CountPairs(a1, a2, 1, 0)
        m2_only == CountPairs(a1, a2, 0, 1)
    IN  IF m1_only + m2_only > 0
        THEN [chi2 |-> McNemarChi2(m1_only, m2_only),
              p |-> Chi2Sf(McNemarChi2(m1_only, m2_only))]
        ELSE [chi2 |-> Frac(1, 1), p |-> 0]

\* Lines 61-69: chi2 and p of the proportion test.
McNemar(a1, a2) ==
    LET m1_only == CountPairs(a1, a2, 1, 0)
        m2_only == CountPairs(a1, a2, 0, 1)
    IN  IF m1_only + m2_only > 0
        THEN [chi2 |-> McNemarChi2(m1_only, m2_only),
              p |-> Chi2Sf(McNemarChi2(m1_only, m2_only))]
        ELSE [chi2 |-> Frac(0, 1), p |-> 1000000]

\* round(p, 4) in units of 10^-4, from p in millionths: p * 10^4 = pv / 100.
RoundP(pv) == RoundFrac(Frac(pv, 100), 0)

\* The dict appended to results.
Row(metric, statistic, pv, significance) ==
    [metric |-> metric,
     statistic |-> RoundFrac(statistic, 3),
     p_value |-> RoundP(pv),
     significance |-> significance]

\* What stats.wilcoxon may return: the library is not modelled, its result
\* is an input.  The p-values sit on and next to the three thresholds.
WilcoxonPValues == {999, 1000, 9999, 10000, 49999, 50000}

WilcoxonStatistics == {Frac(0, 1), Frac(3, 2)}

\* The is_accurate columns of two scored files of the same length.
AccuracyColumns ==
    UNION {[1..n -> BOOLEAN] : n \in 1..MaxQuestions}

\* Lines 39-54: the rank test of the pair and its row.
CompareConsistency ==
    /\ tpc = "consistency"
    /\ \E w \in WilcoxonStatistics, pv \in WilcoxonPValues :
          /\ stat' = w
          /\ p' = pv
          /\ sig' = SigConsistency(pv)
          /\ results' = Append(results, Row("consistency", w, pv, SigConsistency(pv)))
    /\ tpc' = "accuracy"
    /\ UNCHANGED <<acc1, acc2>>
    /\ UNCHANGED scoreVars
    /\ UNCHANGED otherVars

\* Lines 58-83: the proportion test of the pair and its row.
CompareAccuracy ==
    /\ tpc = "accuracy"
    /\ \E a1 \in AccuracyColumns, a2 \in AccuracyColumns :
          /\ Len(a1) = Len(a2)
          /\ acc1' = a1
          /\ acc2' = a2
          /\ LET r == McNemar(a1, a2)
             IN  /\ stat' = r.chi2
                 /\ p' = r.p
                 /\ sig' = SigAccuracy(r.p)
                 /\ results' = Append(results,
                                  Row("accuracy", r.chi2, r.p, SigAccuracy(r.p)))
    /\ tpc' = "end"
    /\ UNCHANGED scoreVars
    /\ UNCHANGED otherVars

ScoreIdle ==
    /\ pc = "idle"
    /\ item = <<>>
    /\ record = <<>>
    /\ n_records = 0
    /\ exc = "none"
    /\ saved = FALSE

InitCompare ==
    /\ ScoreIdle
    /\ OtherIdle
    /\ tpc = "consistency"
    /\ acc1 = <<>>
    /\ acc2 = <<>>
    /\ stat = Frac(0, 1)
    /\ p = 0
    /\ sig = ""
    /\ results = <<>>

NextCompare == CompareConsistency \/ CompareAccuracy

SpecCompare == InitCompare /\ [][NextCompare]_vars

(***************************************************************************)
(* statistical_tests.py: run_tests over every dataset and every pair.      *)
(***************************************************************************)
MODELS == <<"phi3_mini", "llama3.2", "gemma2", "mistral">>
DATASETS == <<"medqa", "medmcqa", "pubmedqa">>
ModelSet == {MODELS[i] : i \in DOMAIN MODELS}

\* Mutant: the fourth pair repeats the first.
PairsRepeated ==
    << <<"llama3.2", "phi3_mini">>, <<"gemma2", "phi3_mini">>,
       <<"mistral", "phi3_mini">>, <<"llama3.2", "phi3_mini">> >>

\* Lines 31-36.
Pairs ==
    << <<"llama3.2", "phi3_mini">>, <<"gemma2", "phi3_mini">>,
       <<"mistral", "phi3_mini">>, <<"llama3.2", "gemma2">> >>

\* A scored csv file, by column.
ScoredFile(ids, cons, acc) ==
    [id |-> ids, consistency_score |-> cons, is_accurate |-> acc]

\* results/scored of one dataset: per model <<file>>, or <<>> when the file
\* does not exist.
BaseTable ==
    [m \in ModelSet |->
        CASE m = "phi3_mini" -> <<ScoredFile(<<1, 2>>, <<200, 400>>, <<TRUE, FALSE>>)>>
          [] m = "llama3.2"  -> <<ScoredFile(<<1, 2>>, <<600, 1000>>, <<TRUE, TRUE>>)>>
          [] m = "gemma2"    -> <<ScoredFile(<<1, 2>>, <<800, 600>>, <<FALSE, TRUE>>)>>
          [] OTHER           -> <<ScoredFile(<<1, 2>>, <<1000, 600>>, <<FALSE, FALSE>>)>>]

\* llama3.2 scored exactly as phi3_mini.
SameTable == [BaseTable EXCEPT !["llama3.2"] = BaseTable["phi3_mini"]]

\* mistral has one question less.
ShortTable ==
    [BaseTable EXCEPT !["mistral"] = <<ScoredFile(<<1>>, <<1000>>, <<FALSE>>)>>]

\* gemma2 holds the same questions in another order.
ReorderedTable ==
    [BaseTable EXCEPT !["gemma2"] =
        <<ScoredFile(<<2, 1>>, <<800, 600>>, <<FALSE, TRUE>>)>>]

\* mistral holds other questions.
OtherIdsTable ==
    [BaseTable EXCEPT !["mistral"] =
        <<ScoredFile(<<3, 4>>, <<1000, 600>>, <<FALSE, FALSE>>)>>]

\* The file of mistral was never written.
MissingTable == [BaseTable EXCEPT !["mistral"] = <<>>]

\* Eleven questions on which llama3.2 is more consistent than phi3_mini
\* every time, by eleven different amounts.
LongTable ==
    LET ids == [i \in 1..11 |-> i]
        yes == [i \in 1..11 |-> TRUE]
    IN  [m \in ModelSet |->
            CASE m = "phi3_mini" ->
                   <<ScoredFile(ids, <<0, 200, 500, 200, 667, 200, 333, 0, 500, 200, 250>>,
                                yes)>>
              [] m = "llama3.2" ->
                   <<ScoredFile(ids, <<800, 250, 667, 400, 750, 500, 400, 1000, 750, 750, 400>>,
                                [yes EXCEPT ![1] = FALSE])>>
              [] m = "gemma2" ->
                   <<ScoredFile(ids, <<333, 500, 333, 750, 333, 667, 600, 667, 0, 250, 0>>,
                                yes)>>
              [] OTHER ->
                   <<ScoredFile(ids, <<500, 333, 800, 250, 750, 750, 667, 1000, 250, 1000, 400>>,
                                [yes EXCEPT ![2] = FALSE, ![3] = FALSE])>>]

Tables ==
    {BaseTable, SameTable, ShortTable, ReorderedTable, OtherIdsTable, MissingTable,
     LongTable}

RECURSIVE SetSum(_)
SetSum(S) ==
    IF S = {} THEN 0
    ELSE LET x == CHOOSE y \in S : TRUE IN x + SetSum(S \ {x})

Magnitude(x) == IF x < 0 THEN -x ELSE x

\* Exact two-sided signed-rank test for differences without zeros and
\* without tied magnitudes: statistic min(r_plus, r_minus), p-value
\* 2 * P(W <= statistic) capped at 1, in millionths.
WilcoxonExact(d) ==
    LET n == Len(d)
        rank(i) == Cardinality({j \in 1..n : Magnitude(d[j]) <= Magnitude(d[i])})
        r_plus == SetSum({rank(i) : i \in {j \in 1..n : d[j] > 0}})
        r_minus == SetSum({rank(i) : i \in {j \in 1..n : d[j] < 0}})
        w == IF r_plus < r_minus THEN r_plus ELSE r_minus
        cnt == Cardinality({S \in SUBSET (1..n) : SetSum(S) <= w})
        all == 2 ^ n
    IN  [raised |-> FALSE, statistic |-> Frac(w, 1),
         p |-> IF 2 * cnt >= all THEN 1000000 ELSE (2 * cnt * 1000000) \div all]

\* Mutant: the test returns a degenerate result wherever it would raise.
WilcoxonNeverRaises(s1, s2) ==
    IF Len(s1) = Len(s2)
          /\ (\A i \in DOMAIN s1 : s1[i] # s2[i])
          /\ (\A i, j \in DOMAIN s1 :
                 i # j => Magnitude(s1[i] - s2[i]) # Magnitude(s1[j] - s2[j]))
    THEN {WilcoxonExact([i \in DOMAIN s1 |-> s1[i] - s2[i]])}
    ELSE {[raised |-> FALSE, statistic |-> Frac(0, 1), p |-> NaN]}

\* stats.wilcoxon(s1, s2), line 41.  Arrays of different length raise
\* ValueError.  When every difference is zero the installed scipy decides:
\* it raises ValueError, or it returns statistic 0.0 with p-value nan.
\* With zeros or ties among the differences the normal approximation is
\* used, whose value is an input.
WilcoxonOutcomes(s1, s2) ==
    IF Len(s1) # Len(s2) THEN {[raised |-> TRUE]}
    ELSE LET d == [i \in DOMAIN s1 |-> s1[i] - s2[i]]
         IN  IF \A i \in DOMAIN d : d[i] = 0
             THEN {[raised |-> TRUE],
                   [raised |-> FALSE, statistic |-> Frac(0, 1), p |-> NaN]}
             ELSE IF /\ \A i \in DOMAIN d : d[i] # 0
                     /\ \A i, j \in DOMAIN d :
                           i # j => Magnitude(d[i]) # Magnitude(d[j])
             THEN {WilcoxonExact(d)}
             ELSE {[raised |-> FALSE, statistic |-> w, p |-> pv] :
                       w \in WilcoxonStatistics, pv \in WilcoxonPValues}

\* round(p, 4) in units of 10^-4; round(nan, 4) is nan.
RoundedP(pv) == IF pv = NaN THEN NaN ELSE RoundP(pv)

\* Lines 45-53 and 75-83: the dict appended to results.
ResultRow(dataset, m1, m2, metric, statistic, pv, significance) ==
    [dataset |-> dataset, model1 |-> m1, model2 |-> m2, metric |-> metric,
     statistic |-> RoundFrac(statistic, 3),
     p_value |-> RoundedP(pv),
     significance |-> significance]

\* Lines 25-28: the four scored files of the dataset are read; pd.read_csv
\* raises FileNotFoundError for a file that does not exist.
LoadScored ==
    /\ exc = "none"
    /\ ds \in DOMAIN DATASETS
    /\ step = 0
    /\ IF \E m \in ModelSet : disk[ds][m] = <<>>
       THEN /\ exc' = "FileNotFoundError"
            /\ UNCHANGED <<scores, step>>
       ELSE /\ scores' = <<[m \in ModelSet |-> disk[ds][m][1]]>>
            /\ step' = 1
            /\ UNCHANGED exc
    /\ UNCHANGED <<pc, item, record, n_records, saved>>
    /\ UNCHANGED testVars
    /\ UNCHANGED <<data, df, summary, disk, ds, files, inf>>

\* Lines 38-54: one iteration of the consistency loop.
TestConsistency ==
    /\ exc = "none"
    /\ ds \in DOMAIN DATASETS
    /\ step \in 1..4
    /\ LET m1 == Pairs[step][1]
           m2 == Pairs[step][2]
           s1 == scores[1][m1].consistency_score
           s2 == scores[1][m2].consistency_score
       IN  \E o \in WilcoxonOutcomes(s1, s2) :
              IF o.raised
              THEN /\ exc' = "ValueError"
                   /\ UNCHANGED <<results, step>>
              ELSE /\ results' = Append(results,
                          ResultRow(DATASETS[ds], m1, m2, "consistency",
                                    o.statistic, o.p, SigConsistency(o.p)))
                   /\ step' = step + 1
                   /\ UNCHANGED exc
    /\ UNCHANGED <<pc, item, record, n_records, saved>>
    /\ UNCHANGED <<tpc, acc1, acc2, stat, p, sig>>
    /\ UNCHANGED <<data, df, summary, disk, ds, scores, files, inf>>

\* Lines 57-83: one iteration of the accuracy loop; after the last pair the
\* dataset loop moves on.
TestAccuracy ==
    /\ exc = "none"
    /\ ds \in DOMAIN DATASETS
    /\ step \in 5..8
    /\ LET m1 == Pairs[step - 4][1]
           m2 == Pairs[step - 4][2]
           r == McNemar(scores[1][m1].is_accurate, scores[1][m2].is_accurate)
       IN  results' = Append(results,
                  ResultRow(DATASETS[ds], m1, m2, "accuracy",
                            r.chi2, r.p, SigAccuracy(r.p)))
    /\ IF step = 8
       THEN step' = 0 /\ ds' = ds + 1
       ELSE step' = step + 1 /\ ds' = ds
    /\ UNCHANGED <<pc, item, record, n_records, exc, saved>>
    /\ UNCHANGED <<tpc, acc1, acc2, stat, p, sig>>
    /\ UNCHANGED <<data, df, summary, disk, scores, files, inf>>

\* Line 86: the rows are written once the dataset loop has ended.
SaveResults ==
    /\ exc = "none"
    /\ ds = Len(DATASETS) + 1
    /\ ~saved
    /\ saved' = TRUE
    /\ UNCHANGED <<pc, item, record, n_records, exc>>
    /\ UNCHANGED testVars
    /\ UNCHANGED otherVars

InitTests ==
    /\ ScoreIdle
    /\ TestIdle
    /\ disk \in [DOMAIN DATASETS -> Tables]
    /\ ds = 1
    /\ step = 0
    /\ scores = <<>>
    /\ data = <<>>
    /\ df = <<>>
    /\ summary = <<>>
    /\ files = {}
    /\ inf = <<>>

NextTests == LoadScored \/ TestConsistency \/ TestAccuracy \/ SaveResults

SpecTests == InitTests /\ [][NextTests]_vars

(***************************************************************************)
(* The pipeline: consistency_scorer.py __main__, then run_tests.           *)
(***************************************************************************)
\* consistency_scorer.py lines 141-142.
datasets == <<"medqa", "medmcqa", "pubmedqa">>
models == <<"phi3_mini", "llama3.2">>

\* results/scored before the scorer runs: files of the models the scorer
\* does not score may be there from elsewhere or not; the files of its own
\* models are overwritten in any case.
DirectoriesBefore ==
    LET scored == {models[i] : i \in DOMAIN models}
        OneDataset ==
            {[m \in ModelSet |-> IF m \in S THEN BaseTable[m] ELSE <<>>] :
                S \in SUBSET (ModelSet \ scored)}
    IN  [DOMAIN DATASETS -> OneDataset]

\* Lines 146-152: score_dataset for the next model (outer loop) and dataset
\* (inner loop); it writes results/scored/{dataset_name}_{model_key}.csv.
MainScoreDataset ==
    /\ pc = "scorer"
    /\ step < Len(models) * Len(datasets)
    /\ LET model_key == models[(step \div Len(datasets)) + 1]
           d == (step % Len(datasets)) + 1
       IN  /\ disk' = [disk EXCEPT ![d][model_key] = BaseTable[model_key]]
           /\ files' = files \cup {<<datasets[d], model_key>>}
    /\ step' = step + 1
    /\ UNCHANGED <<pc, item, record, n_records, exc, saved>>
    /\ UNCHANGED testVars
    /\ UNCHANGED <<data, df, summary, ds, scores, inf>>

\* Lines 163-164: the master summary is written and the scorer ends; the
\* next stage, run_tests, starts.
MainSaveSummary ==
    /\ pc = "scorer"
    /\ step = Len(models) * Len(datasets)
    /\ pc' = "tests"
    /\ ds' = 1
    /\ step' = 0
    /\ UNCHANGED <<item, record, n_records, exc, saved>>
    /\ UNCHANGED testVars
    /\ UNCHANGED <<data, df, summary, disk, scores, files, inf>>

InitPipeline ==
    /\ pc = "scorer"
    /\ item = <<>>
    /\ record = <<>>
    /\ n_records = 0
    /\ exc = "none"
    /\ saved = FALSE
    /\ TestIdle
    /\ disk \in DirectoriesBefore
    /\ ds = 0
    /\ step = 0
    /\ scores = <<>>
    /\ data = <<>>
    /\ df = <<>>
    /\ summary = <<>>
    /\ files = {}
    /\ inf = <<>>

NextPipeline ==
    \/ MainScoreDataset
    \/ MainSaveSummary
    \/ LoadScored
    \/ TestConsistency
    \/ TestAccuracy
    \/ SaveResults

SpecPipeline == InitPipeline /\ [][NextPipeline]_vars

(***************************************************************************)
(* inference.py: the style loop of run_inference for one question.         *)
(***************************************************************************)
Digits == {"0", "1", "2", "3", "4", "5", "6", "7", "8", "9"}

LowerChar(c) ==
    IF \E i \in 1..26 : UpperCase[i] = c
    THEN LowerCase[CHOOSE i \in 1..26 : UpperCase[i] = c]
    ELSE c

\* str.lower()
Lower(s) == [i \in 1..Len(s) |-> LowerChar(s[i])]

\* A character of \w.
IsWordChar(c) ==
    \/ \E i \in 1..26 : LowerCase[i] = c \/ UpperCase[i] = c
    \/ c \in Digits
    \/ c = "_"

\* The positions re.search(r'\b([ABCD])\b', raw) can match at.
StandalonePositions(raw) ==
    {i \in 1..Len(raw) :
        /\ raw[i] \in {"A", "B", "C", "D"}
        /\ (i = 1 \/ ~IsWordChar(raw[i - 1]))
        /\ (i = Len(raw) \/ ~IsWordChar(raw[i + 1]))}

\* sub in raw
Contains(raw, sub) ==
    \E i \in 1..(Len(raw) - Len(sub) + 1) : SubSeq(raw, i, i + Len(sub) - 1) = sub

\* Lines 46-59.
extract_answer_mcq(text) ==
    LET raw == Strip(Upper(text))
        at == StandalonePositions(raw)
    IN  IF at # {} THEN <<raw[CHOOSE i \in at : \A j \in at : i <= j]>>
        ELSE IF raw # <<>> /\ raw[1] \in {"A", "B", "C", "D"} THEN <<raw[1]>>
        ELSE UNKNOWN

\* Lines 62-73.
extract_answer_pubmedqa(text) ==
    LET raw == Strip(Lower(text))
    IN  IF Contains(raw, <<"y", "e", "s">>) THEN <<"y", "e", "s">>
        ELSE IF Contains(raw, <<"n", "o">>) THEN <<"n", "o">>
        ELSE IF Contains(raw, <<"m", "a", "y", "b", "e">>) THEN <<"m", "a", "y", "b", "e">>
        ELSE UNKNOWN

\* str(e) of the exceptions requests raises when the server is not running,
\* when it does not answer in time and when it does not know the model, and
\* two texts a model returns.
\* HTTPConnectionPool(host='localhost', port=11434): Max retries exceeded
\* with url: /api/generate (Caused by
\* NewConnectionError("HTTPConnection(host='localhost', port=11434): Failed
\* to establish a new connection: [Errno 111] Connection refused"))
RefusedText ==
    <<"H","T","T","P","C","o","n","n","e","c","t","i","o","n","P","o","o","l",
      "(","h","o","s","t","=","'","l","o","c","a","l","h","o","s","t","'",",",
      " ","p","o","r","t","=","1","1","4","3","4",")",":"," ","M","a","x"," ",
      "r","e","t","r","i","e","s"," ","e","x","c","e","e","d","e","d"," ","w",
      "i","t","h"," ","u","r","l",":"," ","/","a","p","i","/","g","e","n","e",
      "r","a","t","e"," ","(","C","a","u","s","e","d"," ","b","y"," ","N","e",
      "w","C","o","n","n","e","c","t","i","o","n","E","r","r","o","r","(",
      "\"","H","T","T","P","C","o","n","n","e","c","t","i","o","n","(","h",
      "o","s","t","=","'","l","o","c","a","l","h","o","s","t","'",","," ","p",
      "o","r","t","=","1","1","4","3","4",")",":"," ","F","a","i","l","e","d",
      " ","t","o"," ","e","s","t","a","b","l","i","s","h"," ","a"," ","n","e",
      "w"," ","c","o","n","n","e","c","t","i","o","n",":"," ","[","E","r","r",
      "n","o"," ","1","1","1","]"," ","C","o","n","n","e","c","t","i","o","n",
      " ","r","e","f","u","s","e","d","\"",")",")">>

\* HTTPConnectionPool(host='localhost', port=11434): Read timed out. (read
\* timeout=60)
TimeoutText ==
    <<"H","T","T","P","C","o","n","n","e","c","t","i","o","n","P","o","o","l",
      "(","h","o","s","t","=","'","l","o","c","a","l","h","o","s","t","'",",",
      " ","p","o","r","t","=","1","1","4","3","4",")",":"," ","R","e","a","d",
      " ","t","i","m","e","d"," ","o","u","t","."," ","(","r","e","a","d"," ",
      "t","i","m","e","o","u","t","=","6","0",")">>

\* 404 Client Error: Not Found for url: http://localhost:11434/api/generate
NotFoundText ==
    <<"4","0","4"," ","C","l","i","e","n","t"," ","E","r","r","o","r",":"," ",
      "N","o","t"," ","F","o","u","n","d"," ","f","o","r"," ","u","r","l",":",
      " ","h","t","t","p",":","/","/","l","o","c","a","l","h","o","s","t",":",
      "1","1","4","3","4","/","a","p","i","/","g","e","n","e","r","a","t",
      "e">>

\* The answer is B.
AnswerText ==
    <<"T","h","e"," ","a","n","s","w","e","r"," ","i","s"," ","B",".">>

\* Yes.
YesText ==
    <<"Y","e","s",".">>

\* f"ERROR: {e}"
ErrorText(e) == <<"E", "R", "R", "O", "R", ":", " ">> \o e

\* query_ollama(model, prompt), lines 27-43: the stripped response text, or
\* the error text when the request raised.
QueryOutcomes ==
    {[failed |-> FALSE, text |-> Strip(t)] : t \in {AnswerText, YesText}}
        \cup {[failed |-> TRUE, text |-> ErrorText(e)] :
                  e \in {RefusedText, TimeoutText, NotFoundText}}

\* item["prompts"]: the five styles, in the order prompt_variations.py
\* builds them.
PromptStyles == PROMPT_STYLES

\* Lines 109-119: one iteration of the style loop.  `failed` remembers the
\* styles whose query raised; the program does not record it.
QueryStyle ==
    /\ inf # <<>>
    /\ inf[1].i <= Len(PromptStyles)
    /\ \E o \in QueryOutcomes :
          LET style == PromptStyles[inf[1].i]
              answer == IF inf[1].is_pubmedqa
                        THEN extract_answer_pubmedqa(o.text)
                        ELSE extract_answer_mcq(o.text)
              entry == [raw |-> o.text, extracted |-> answer]
          IN  inf' = <<[is_pubmedqa |-> inf[1].is_pubmedqa,
                        i |-> inf[1].i + 1,
                        responses |-> [s \in DOMAIN inf[1].responses \cup {style} |->
                                          IF s = style THEN entry
                                          ELSE inf[1].responses[s]],
                        failed |-> IF o.failed THEN inf[1].failed \cup {style}
                                   ELSE inf[1].failed,
                        appended |-> FALSE]>>
    /\ UNCHANGED scoreVars
    /\ UNCHANGED testVars
    /\ UNCHANGED <<data, df, summary, disk, ds, step, scores, files>>

\* Line 121: results.append(record).
AppendResult ==
    /\ inf # <<>>
    /\ inf[1].i = Len(PromptStyles) + 1
    /\ ~inf[1].appended
    /\ inf' = <<[inf[1] EXCEPT !.appended = TRUE]>>
    /\ UNCHANGED scoreVars
    /\ UNCHANGED testVars
    /\ UNCHANGED <<data, df, summary, disk, ds, step, scores, files>>

InitInference ==
    /\ ScoreIdle
    /\ TestIdle
    /\ data = <<>>
    /\ df = <<>>
    /\ summary = <<>>
    /\ disk = <<>>
    /\ ds = 0
    /\ step = 0
    /\ scores = <<>>
    /\ files = {}
    /\ \E b \in BOOLEAN :
          inf = <<[is_pubmedqa |-> b, i |-> 1, responses |-> [s \in {} |-> <<>>],
                   failed |-> {}, appended |-> FALSE]>>

NextInference == QueryStyle \/ AppendResult

SpecInference == InitInference /\ [][NextInference]_vars

(***************************************************************************)
(* Properties of score_dataset.  They are stated on the raw item and the   *)
(* finished record, with counts taken directly from the raw item.          *)
(***************************************************************************)
Scored == pc = "append"

Raw == item[1].responses

Rec == record[1]

Present == {s \in StyleSet : s \in DOMAIN Raw}

ValidStyles == {s \in Present : Raw[s] # UNKNOWN}

Votes(t) == Cardinality({s \in ValidStyles : Raw[s] = t})

StyleIndex(s) == CHOOSE i \in DOMAIN PROMPT_STYLES : PROMPT_STYLES[i] = s

FirstSeen(t) ==
    CHOOSE i \in DOMAIN PROMPT_STYLES :
        /\ PROMPT_STYLES[i] \in ValidStyles
        /\ Raw[PROMPT_STYLES[i]] = t
        /\ \A s \in ValidStyles : Raw[s] = t => StyleIndex(s) >= i

SameIgnoringCase(a, b) ==
    /\ Len(a) = Len(b)
    /\ \A i \in 1..Len(a) : UpperChar(a[i]) = UpperChar(b[i])

Abs(x) == IF x < 0 THEN -x ELSE x

\* C1: the majority answer of a scored record is a non-UNKNOWN token of the
\* AnswerSet with the highest number of votes, and among the tokens that
\* share that number it is the one met first in the order of PROMPT_STYLES.
C1_MajorityFirstMax ==
    (Scored /\ ValidStyles # {}) =>
        /\ \E s \in ValidStyles : Raw[s] = Rec.majority_answer
        /\ \A s \in ValidStyles :
              \/ Raw[s] = Rec.majority_answer
              \/ Votes(Raw[s]) < Votes(Rec.majority_answer)
              \/ /\ Votes(Raw[s]) = Votes(Rec.majority_answer)
                 /\ FirstSeen(Rec.majority_answer) < FirstSeen(Raw[s])

\* A tie of two votes each whose winner is not the token of the first style.
C1_Witness ==
    /\ Scored
    /\ "original" \in Present /\ Raw["original"] = UNKNOWN
    /\ \E s \in ValidStyles :
          /\ Raw[s] # Rec.majority_answer
          /\ Votes(Raw[s]) = 2
          /\ Votes(Rec.majority_answer) = 2
          /\ FirstSeen(Rec.majority_answer) < FirstSeen(Raw[s])

\* C2 as stated: the recorded agreement score is exactly
\* votes(majority) / present, and 0 when no entry is valid.
C2_ScoreIsExactQuotient ==
    Scored =>
        IF ValidStyles = {} THEN Rec.consistency_score = 0
        ELSE Rec.consistency_score * Cardinality(Present)
                = 1000 * Votes(Rec.majority_answer)

\* C2 amended: the recorded agreement score is votes(majority) / present
\* rounded to three decimals (within half a thousandth of the quotient), and
\* 0 when no entry is valid.
C2_ScoreIsRoundedQuotient ==
    Scored =>
        IF ValidStyles = {} THEN Rec.consistency_score = 0
        ELSE 2 * Abs(Rec.consistency_score * Cardinality(Present)
                        - 1000 * Votes(Rec.majority_answer))
                <= Cardinality(Present)

\* Two of three present entries agree and the third is UNKNOWN: 0.667.
C2_Witness ==
    /\ Scored
    /\ Cardinality(Present) = 3
    /\ Cardinality(ValidStyles) = 2
    /\ Votes(Rec.majority_answer) = 2
    /\ Rec.consistency_score = 667

\* C3 as stated: every AnswerSet the scorer has processed, whatever subset
\* of the styles it holds, has an agreement score and a missing-rate, and
\* both lie in [0, 1].
C3_ScoresInUnitInterval ==
    (item # <<>> /\ pc # "body") =>
        /\ record # <<>>
        /\ Rec.consistency_score >= 0 /\ Rec.consistency_score <= 1000
        /\ Rec.unknown_rate >= 0 /\ Rec.unknown_rate <= 1000

\* C4 as stated: scoring an item never raises, and the record of an item
\* with no valid entry (none present, or all UNKNOWN) has majority UNKNOWN.
C4_NeverRaises ==
    (item # <<>> /\ pc # "body") =>
        /\ exc = "none"
        /\ record # <<>>
        /\ (ValidStyles = {} => Rec.majority_answer = UNKNOWN)

\* C5: when at least one entry is present, every present entry is UNKNOWN
\* and the correct answer is not UNKNOWN, the record has majority UNKNOWN,
\* agreement score 0, missing-rate 1 and is_accurate false.
C5_AllUnknown ==
    (/\ Scored
     /\ Present # {}
     /\ ValidStyles = {}
     /\ Rec.correct_answer # UNKNOWN) =>
        /\ Rec.majority_answer = UNKNOWN
        /\ Rec.consistency_score = 0
        /\ Rec.unknown_rate = 1000
        /\ Rec.is_accurate = FALSE

C5_Witness ==
    /\ Scored
    /\ Present = StyleSet
    /\ ValidStyles = {}
    /\ Rec.correct_answer # UNKNOWN
    /\ Rec.unknown_rate = 1000

\* C6: is_accurate holds exactly when the majority answer and the correct
\* answer of the raw item are equal once case (and padding) is normalized.
C6_AccurateIffSameIgnoringCase ==
    Scored =>
        (Rec.is_accurate <=>
            SameIgnoringCase(Rec.majority_answer, Strip(item[1].correct_answer)))

\* An accurate record whose majority and raw correct answer differ as
\* strings: "B" against " b ".
C6_Witness ==
    /\ Scored
    /\ Rec.is_accurate
    /\ Rec.majority_answer # item[1].correct_answer
    /\ Rec.majority_answer # Strip(item[1].correct_answer)

\* C7: every style has an answer column and a correctness column; a present
\* style carries its own token and is correct exactly when the token equals
\* the correct answer ignoring case; an absent style carries UNKNOWN and
\* FALSE.
C7_PerStyleColumns ==
    Scored =>
        /\ DOMAIN Rec.ans = StyleSet
        /\ DOMAIN Rec.correct = StyleSet
        /\ \A s \in StyleSet :
              IF s \in Present
              THEN /\ Rec.ans[s] = Raw[s]
                   /\ Rec.correct[s] <=>
                        SameIgnoringCase(Raw[s], Strip(item[1].correct_answer))
              ELSE /\ Rec.ans[s] = UNKNOWN
                   /\ Rec.correct[s] = FALSE

\* One style absent, one present and correct only up to case, one present
\* and wrong.
C7_Witness ==
    /\ Scored
    /\ \E s \in StyleSet : s \notin Present /\ Rec.ans[s] = UNKNOWN
    /\ \E s \in Present : Rec.correct[s] /\ Raw[s] # Strip(item[1].correct_answer)
    /\ \E s \in Present : ~Rec.correct[s] /\ Raw[s] # UNKNOWN

(***************************************************************************)
(* Properties of the comparisons.  The discordant counts are taken         *)
(* directly from the two accuracy columns.                                 *)
(***************************************************************************)
AccuracyDone == tpc = "end"

AOnly == Cardinality({i \in DOMAIN acc1 : acc1[i] /\ ~acc2[i]})

BOnly == Cardinality({i \in DOMAIN acc1 : acc2[i] /\ ~acc1[i]})

LastRow == results[Len(results)]

\* The tier the thresholds give a p-value in millionths: below 0.001 "***",
\* from 0.001 and below 0.01 "**", from 0.01 and below 0.05 "*", from 0.05
\* "ns".
TierHolds(pv, tier) ==
    /\ (pv < 1000) <=> (tier = "***")
    /\ (pv >= 1000 /\ pv < 10000) <=> (tier = "**")
    /\ (pv >= 10000 /\ pv < 50000) <=> (tier = "*")
    /\ (pv >= 50000) <=> (tier = "ns")

\* C8: with at least one discordant pair the accuracy statistic equals
\* (|aOnly - bOnly| - 1)^2 / (aOnly + bOnly); aOnly = 5 and bOnly = 1 give
\* 1.5 and the tier "ns".
C8_McNemarStatistic ==
    (AccuracyDone /\ AOnly + BOnly > 0) =>
        /\ stat.den > 0
        /\ stat.num * (AOnly + BOnly)
              = stat.den * (Abs(AOnly - BOnly) - 1) * (Abs(AOnly - BOnly) - 1)
        /\ (AOnly = 5 /\ BOnly = 1) =>
              /\ 2 * stat.num = 3 * stat.den
              /\ sig = "ns"
              /\ LastRow.statistic = 1500
              /\ LastRow.significance = "ns"

C8_Witness ==
    /\ AccuracyDone
    /\ AOnly = 5
    /\ BOnly = 1
    /\ 2 * stat.num = 3 * stat.den
    /\ sig = "ns"

\* C9: with no discordant pair the accuracy comparison yields statistic 0,
\* p-value exactly 1.0 and tier "ns", and its row is appended.
C9_NoDiscordantPairs ==
    (AccuracyDone /\ AOnly + BOnly = 0) =>
        /\ stat.num = 0
        /\ p = 1000000
        /\ sig = "ns"
        /\ Len(results) = 2
        /\ LastRow = [metric |-> "accuracy", statistic |-> 0,
                      p_value |-> 10000, significance |-> "ns"]

\* Both models right on some questions and wrong on others, never apart.
C9_Witness ==
    /\ AccuracyDone
    /\ AOnly + BOnly = 0
    /\ \E i, j \in DOMAIN acc1 : acc1[i] /\ ~acc1[j]
    /\ LastRow.metric = "accuracy"
    /\ LastRow.p_value = 10000

\* C10: after either test the tier is the one the strict thresholds give
\* the p-value of that test, so 0.001 is "**", 0.01 is "*" and 0.05 is
\* "ns"; the row of the test carries that tier.
C10_TierThresholds ==
    (tpc \in {"accuracy", "end"}) =>
        /\ TierHolds(p, sig)
        /\ LastRow.significance = sig
        /\ LastRow.metric = (IF tpc = "accuracy" THEN "consistency" ELSE "accuracy")
        /\ (p = 1000 => sig = "**")
        /\ (p = 10000 => sig = "*")
        /\ (p = 50000 => sig = "ns")

\* A rank test whose p-value is exactly 0.01, followed by a proportion test
\* of the same pair in the tier "*".
C10_Witness ==
    /\ AccuracyDone
    /\ results[1].metric = "consistency"
    /\ results[1].p_value = 100
    /\ results[1].significance = "*"
    /\ sig = "*"
    /\ p < 50000

(***************************************************************************)
(* Claims about summarize, checked under SpecSummary.                      *)
(***************************************************************************)
Summarized == pc = "summarized"
Returned == summary[1]
Frame == df[1]
ScoreColumn == Column(Frame, "consistency_score")

\* v is num / n rounded to the nearest unit.
Nearest(v, num, n) == 2 * Abs(v * n - num) <= n

CountTrue(flags) == Cardinality({i \in DOMAIN flags : flags[i]})

\* C13: when the raw file holds no question, the call of summarize on the
\* frame score_dataset built from it fails (KeyError) and no summary row is
\* returned.
C13_EmptyCollectionFails ==
    (data = <<>> /\ pc \in {"summarized", "raised"}) =>
        /\ pc = "raised"
        /\ exc = "KeyError"
        /\ summary = <<>>

\* The scorer ran on an empty raw file, wrote the empty frame, and summarize
\* raised on it.
C13_Witness ==
    /\ data = <<>>
    /\ saved
    /\ Frame.rows = <<>>
    /\ exc = "KeyError"

\* C14 as stated: the summary equals the direct recomputation exactly
\* (count / N * 100, the arithmetic mean, the percentages of true flags).
C14_SummaryIsExactRecomputation ==
    Summarized =>
        LET n == Len(data)
            full == CountFullyConsistent(ScoreColumn)
        IN  /\ Returned.n_questions = n
            /\ Returned.fully_consistent = full
            /\ Returned.fully_consistent_pct * n = 1000 * full
            /\ Returned.mean_consistency * n = SumSeq(ScoreColumn)
            /\ Returned.overall_accuracy * n
                   = 1000 * CountTrue(Column(Frame, "is_accurate"))
            /\ \A st \in StyleSet :
                   Returned.acc[st] * n
                       = 1000 * CountTrue([i \in 1..n |-> Frame.rows[i].correct[st]])

\* C14 amended: the counts are exact, the mean is the arithmetic mean of the
\* recorded scores rounded to three decimal places, and every percentage is
\* the direct recomputation rounded to one decimal place.
C14_SummaryIsRoundedRecomputation ==
    Summarized =>
        LET n == Len(data)
            full == Cardinality({i \in 1..n :
                        RoundFrac(consistency_score(Responses(data[i])), 3) = 1000})
        IN  /\ Returned.n_questions = n
            /\ FrameLen(Frame) = n
            /\ \A i \in 1..n :
                   ScoreColumn[i] = RoundFrac(consistency_score(Responses(data[i])), 3)
            /\ Returned.fully_consistent = full
            /\ Nearest(Returned.fully_consistent_pct, 1000 * full, n)
            /\ Nearest(Returned.mean_consistency, SumSeq(ScoreColumn), n)
            /\ Nearest(Returned.overall_accuracy,
                       1000 * CountTrue([i \in 1..n |->
                                  IsAccurate(majority_answer(Responses(data[i])),
                                             NormalizeCorrect(data[i].correct_answer))]), n)
            /\ \A st \in StyleSet :
                   Nearest(Returned.acc[st],
                           1000 * CountTrue([i \in 1..n |->
                                      StyleCorrect(StyleAnswer(Responses(data[i]), st),
                                                   NormalizeCorrect(data[i].correct_answer))]), n)

\* Three questions, one of them fully consistent: 33.3 percent is returned
\* for 1 of 3.
C14_Witness ==
    /\ Summarized
    /\ Len(data) = 3
    /\ Returned.fully_consistent = 1
    /\ Returned.fully_consistent_pct = 333
    /\ \E i \in 1..3 : ScoreColumn[i] = 600

\* C20: for a non-empty scored collection summarize returns a row in which
\* every statistic is a defined number, every percentage lies in [0, 100]
\* and fully_consistent does not exceed n_questions.
C20_StatisticsDefined ==
    (pc \in {"summarized", "raised"} /\ exc # "ZeroDivisionError" /\ Len(data) >= 1) =>
        /\ Summarized
        /\ \A v \in {Returned.mean_consistency, Returned.std_consistency,
                     Returned.fully_consistent, Returned.fully_consistent_pct,
                     Returned.overall_accuracy, Returned.unknown_rate} : v # NaN
        /\ \A st \in StyleSet : Returned.acc[st] # NaN
        /\ \A v \in {Returned.fully_consistent_pct, Returned.overall_accuracy,
                     Returned.unknown_rate} \cup {Returned.acc[st] : st \in StyleSet} :
               v >= 0 /\ v <= 1000
        /\ Returned.fully_consistent <= Returned.n_questions

(***************************************************************************)
(* Claims about run_tests, checked under SpecTests.                        *)
(***************************************************************************)
FilesPresent(d, m1, m2) == disk[d][m1] # <<>> /\ disk[d][m2] # <<>>

\* The rows of results for the pair (m1, m2) of dataset d and the metric.
RowsFor(d, m1, m2, metric) ==
    {i \in DOMAIN results :
        /\ results[i].dataset = DATASETS[d]
        /\ results[i].model1 = m1
        /\ results[i].model2 = m2
        /\ results[i].metric = metric}

\* The triples run_tests compares, in processing order.
ComparedPairs ==
    << <<"llama3.2", "phi3_mini">>, <<"gemma2", "phi3_mini">>,
       <<"mistral", "phi3_mini">>, <<"llama3.2", "gemma2">> >>

ExpectedTriple(i) ==
    LET k == (i - 1) % 8
        pair == ComparedPairs[(k % 4) + 1]
    IN  [dataset |-> DATASETS[((i - 1) \div 8) + 1],
         model1 |-> pair[1],
         model2 |-> pair[2],
         metric |-> IF k < 4 THEN "consistency" ELSE "accuracy"]

TripleOf(row) ==
    [dataset |-> row.dataset, model1 |-> row.model1,
     model2 |-> row.model2, metric |-> row.metric]

\* C11: a pair whose two agreement-score arrays are identical never gets an
\* agreement row: the comparison fails instead.
C11_IdenticalArraysFail ==
    \A d \in DOMAIN DATASETS, k \in DOMAIN Pairs :
        LET m1 == Pairs[k][1]
            m2 == Pairs[k][2]
        IN  (/\ FilesPresent(d, m1, m2)
             /\ disk[d][m1][1].consistency_score = disk[d][m2][1].consistency_score)
                => RowsFor(d, m1, m2, "consistency") = {}

\* C12: a pair whose two files do not hold the same sequence of question
\* identifiers gets no row, neither for agreement nor for accuracy.
C12_MisalignedPairsFail ==
    \A d \in DOMAIN DATASETS, k \in DOMAIN Pairs :
        LET m1 == Pairs[k][1]
            m2 == Pairs[k][2]
        IN  (/\ FilesPresent(d, m1, m2)
             /\ disk[d][m1][1].id # disk[d][m2][1].id)
                => /\ RowsFor(d, m1, m2, "consistency") = {}
                   /\ RowsFor(d, m1, m2, "accuracy") = {}

\* C15: the rows appended so far are the first triples of the processing
\* order (per dataset the four agreement rows, then the four accuracy rows),
\* and the file is written with exactly one row for each of the 24 triples.
C15_OneRowPerTriple ==
    /\ \A i \in DOMAIN results : TripleOf(results[i]) = ExpectedTriple(i)
    /\ saved =>
          /\ Len(results) = 8 * Len(DATASETS)
          /\ \A i, j \in DOMAIN results :
                 i # j => TripleOf(results[i]) # TripleOf(results[j])

\* A completed run whose last rows are the accuracy rows of pubmedqa.
C15_Witness ==
    /\ saved
    /\ Len(results) = 24
    /\ results[21].metric = "accuracy"
    /\ results[24].dataset = "pubmedqa"
    /\ results[24].model1 = "llama3.2"
    /\ results[24].model2 = "gemma2"

\* C16: a failure ends the run: the failing step appends no row and does
\* not write the file, nothing happens after it, and the file is written
\* only when every file was there, every compared pair had arrays of one
\* length and all 24 rows are present.
C16_FailureSurfaced ==
    /\ [](saved =>
            /\ exc = "none"
            /\ Len(results) = 8 * Len(DATASETS)
            /\ \A d \in DOMAIN DATASETS :
                  /\ \A m \in ModelSet : disk[d][m] # <<>>
                  /\ \A k \in DOMAIN ComparedPairs :
                        Len(disk[d][ComparedPairs[k][1]][1].consistency_score)
                          = Len(disk[d][ComparedPairs[k][2]][1].consistency_score))
    /\ [][/\ exc = "none"
          /\ exc' # "none" => (results' = results /\ saved' = saved)]_vars

\* The rank test raised in a later dataset, after rows of an earlier one
\* had been appended; the file is not written.
C16_Witness ==
    /\ exc = "ValueError"
    /\ Len(results) >= 8
    /\ ~saved
    /\ ds > 1

\* The tier the thresholds give a stored p_value (in units of 10^-4; nan
\* compares False with every threshold).
TierOfStored(pv) ==
    IF pv < 10 THEN "***"
    ELSE IF pv < 100 THEN "**"
    ELSE IF pv < 500 THEN "*"
    ELSE "ns"

\* C17: in every row of results the stored tier is the tier the thresholds
\* give the p_value stored in the same row.
C17_TierAgreesWithStoredP ==
    \A i \in DOMAIN results :
        results[i].significance = TierOfStored(results[i].p_value)

(***************************************************************************)
(* Claim about the pipeline, checked under SpecPipeline.                   *)
(***************************************************************************)
\* C18: once the scorer has completed, every file run_tests loads, one per
\* dataset of DATASETS and model of MODELS, is among the files the scorer
\* wrote, and run_tests does not fail on a file that is not there.
C18_LoadsOnlyWrittenFiles ==
    pc = "tests" =>
        /\ \A d \in DOMAIN DATASETS, m \in ModelSet : <<DATASETS[d], m>> \in files
        /\ exc # "FileNotFoundError"

(***************************************************************************)
(* Claim about run_inference, checked under SpecInference.                 *)
(***************************************************************************)
\* C19: every style whose query failed has an entry in the record, and the
\* extracted answer of that entry is UNKNOWN.
C19_FailedQueryIsUnknown ==
    \A style \in inf[1].failed :
        /\ style \in DOMAIN inf[1].responses
        /\ inf[1].responses[style].extracted = UNKNOWN

====
